---------------------------- MODULE Spec2Model ----------------------------
(***************************************************************************)
(* git-bump (src/main.go): list the repository's tags, take the greatest   *)
(* semantic version as the current one, bump it by the kind the flags or   *)
(* the prompt select, create an annotated tag at HEAD and push it to       *)
(* origin.                                                                 *)
(*                                                                         *)
(* Strings are sequences of one-character strings, so that parsing,        *)
(* formatting and prefix tests are computed on the text itself.            *)
(* The operators NewVersion, String, Compare, IncMajor, IncMinor, IncPatch *)
(* and InsertionSort follow github.com/Masterminds/semver/v3 and Go's      *)
(* sort package, which main.go calls.                                      *)
(***************************************************************************)
EXTENDS Integers, Sequences, FiniteSets

\* Greatest number of tags the repository holds when the program starts.
MaxTags == 3

-----------------------------------------------------------------------------
(* Text helpers *)

Digits == <<"0", "1", "2", "3", "4", "5", "6", "7", "8", "9">>

Lower == <<"a", "b", "c", "d", "e", "f", "g", "h", "i", "j", "k", "l", "m",
           "n", "o", "p", "q", "r", "s", "t", "u", "v", "w", "x", "y", "z">>

Upper == <<"A", "B", "C", "D", "E", "F", "G", "H", "I", "J", "K", "L", "M",
           "N", "O", "P", "Q", "R", "S", "T", "U", "V", "W", "X", "Y", "Z">>

Range(f) == {f[i] : i \in DOMAIN f}

IndexOf(q, c) == CHOOSE i \in DOMAIN q : q[i] = c

DigitChars == Range(Digits)

\* [0-9A-Za-z\-], the characters of a pre-release or metadata identifier.
IdentChars == Range(Digits) \cup Range(Lower) \cup Range(Upper) \cup {"-"}

IsDigit(c) == c \in DigitChars

IsIdentChar(c) == c \in IdentChars

DigitVal(c) == IndexOf(Digits, c) - 1

\* The byte value Go's string comparison orders by.
Byte(c) ==
    IF c \in DigitChars THEN 47 + IndexOf(Digits, c)
    ELSE IF c \in Range(Upper) THEN 64 + IndexOf(Upper, c)
    ELSE IF c \in Range(Lower) THEN 96 + IndexOf(Lower, c)
    ELSE IF c = "+" THEN 43
    ELSE IF c = "-" THEN 45
    ELSE 46

\* The first position at or after i that holds no digit.
RECURSIVE ScanDigits(_, _)
ScanDigits(s, i) ==
    IF i <= Len(s) /\ IsDigit(s[i]) THEN ScanDigits(s, i + 1) ELSE i

\* The first position at or after i that holds no identifier character.
RECURSIVE ScanIdent(_, _)
ScanIdent(s, i) ==
    IF i <= Len(s) /\ IsIdentChar(s[i]) THEN ScanIdent(s, i + 1) ELSE i

\* The end of a match of [0-9A-Za-z\-]+(\.[0-9A-Za-z\-]+)* starting at i,
\* or 0 when there is none that the rest of the pattern can follow.
RECURSIVE ScanDotted(_, _)
ScanDotted(s, i) ==
    LET e == ScanIdent(s, i)
    IN  IF e = i THEN 0
        ELSE IF e <= Len(s) /\ s[e] = "." THEN ScanDotted(s, e + 1)
        ELSE e

\* strconv.ParseUint of the digits s[i..e-1].
RECURSIVE ParseUint(_, _, _)
ParseUint(s, i, e) ==
    IF e <= i THEN 0 ELSE ParseUint(s, i, e - 1) * 10 + DigitVal(s[e - 1])

\* fmt's %d of a natural number.
RECURSIVE FormatUint(_)
FormatUint(n) ==
    IF n < 10 THEN <<Digits[n + 1]>>
    ELSE FormatUint(n \div 10) \o <<Digits[(n % 10) + 1]>>

\* strings.HasPrefix
HasPrefix(s, p) == Len(s) >= Len(p) /\ SubSeq(s, 1, Len(p)) = p

\* strings.Split(s, ".")
RECURSIVE Split(_)
Split(s) ==
    IF \E i \in DOMAIN s : s[i] = "."
    THEN LET i == CHOOSE k \in DOMAIN s :
                      s[k] = "." /\ \A j \in 1..(k - 1) : s[j] # "."
         IN  <<SubSeq(s, 1, i - 1)>> \o Split(SubSeq(s, i + 1, Len(s)))
    ELSE <<s>>

\* Go's s > o on strings: bytewise lexicographic order.
RECURSIVE StringGreater(_, _)
StringGreater(s, o) ==
    IF s = <<>> THEN FALSE
    ELSE IF o = <<>> THEN TRUE
    ELSE IF Byte(Head(s)) # Byte(Head(o)) THEN Byte(Head(s)) > Byte(Head(o))
    ELSE StringGreater(Tail(s), Tail(o))

-----------------------------------------------------------------------------
(* semver.Version *)

\* A nil *semver.Version: the slot of a tag that did not parse.
Nil == [nil |-> TRUE]

\* semver.NewVersion: v?N(.N)?(.N)?(-pre)?(+metadata)?, anchored at both
\* ends; absent minor and patch are 0; the text is kept as original.
NewVersion(s) ==
    LET p0 == IF HasPrefix(s, <<"v">>) THEN 2 ELSE 1
        e1 == ScanDigits(s, p0)
        hasMinor == e1 <= Len(s) /\ s[e1] = "." /\ ScanDigits(s, e1 + 1) > e1 + 1
        e2 == IF hasMinor THEN ScanDigits(s, e1 + 1) ELSE e1
        hasPatch == hasMinor /\ e2 <= Len(s) /\ s[e2] = "."
                             /\ ScanDigits(s, e2 + 1) > e2 + 1
        e3 == IF hasPatch THEN ScanDigits(s, e2 + 1) ELSE e2
        hasPre == e3 <= Len(s) /\ s[e3] = "-"
        e4 == IF hasPre THEN ScanDotted(s, e3 + 1) ELSE e3
        hasMeta == e4 # 0 /\ e4 <= Len(s) /\ s[e4] = "+"
        e5 == IF hasMeta THEN ScanDotted(s, e4 + 1) ELSE e4
    IN  IF e1 = p0 \/ e4 = 0 \/ e5 # Len(s) + 1
        THEN Nil
        ELSE [major    |-> ParseUint(s, p0, e1),
              minor    |-> IF hasMinor THEN ParseUint(s, e1 + 1, e2) ELSE 0,
              patch    |-> IF hasPatch THEN ParseUint(s, e2 + 1, e3) ELSE 0,
              pre      |-> IF hasPre THEN SubSeq(s, e3 + 1, e4 - 1) ELSE <<>>,
              metadata |-> IF hasMeta THEN SubSeq(s, e4 + 1, e5 - 1) ELSE <<>>,
              original |-> s]

\* Version.String: the canonical text, never with a prefix.
String(v) ==
    FormatUint(v.major) \o <<".">> \o FormatUint(v.minor) \o <<".">>
        \o FormatUint(v.patch)
        \o (IF v.pre # <<>> THEN <<"-">> \o v.pre ELSE <<>>)
        \o (IF v.metadata # <<>> THEN <<"+">> \o v.metadata ELSE <<>>)

IsNumeric(s) == s # <<>> /\ \A i \in DOMAIN s : IsDigit(s[i])

\* semver's comparePrePart: numbers order below identifiers, numbers by
\* value, identifiers bytewise; an absent part orders below a present one.
ComparePrePart(s, o) ==
    IF s = o THEN 0
    ELSE IF s = <<>> THEN -1
    ELSE IF o = <<>> THEN 1
    ELSE IF ~IsNumeric(o) /\ ~IsNumeric(s)
         THEN (IF StringGreater(s, o) THEN 1 ELSE -1)
    ELSE IF ~IsNumeric(o) THEN -1
    ELSE IF ~IsNumeric(s) THEN 1
    ELSE IF ParseUint(o, 1, Len(o) + 1) > ParseUint(s, 1, Len(s) + 1) THEN -1
    ELSE 1

\* semver's comparePrerelease: part by part, the first difference decides.
RECURSIVE ComparePreParts(_, _)
ComparePreParts(sp, op) ==
    IF sp = <<>> /\ op = <<>> THEN 0
    ELSE LET st == IF sp = <<>> THEN <<>> ELSE Head(sp)
             ot == IF op = <<>> THEN <<>> ELSE Head(op)
             d  == ComparePrePart(st, ot)
         IN  IF d # 0 THEN d
             ELSE ComparePreParts(IF sp = <<>> THEN <<>> ELSE Tail(sp),
                                  IF op = <<>> THEN <<>> ELSE Tail(op))

CompareSegment(v, o) == IF v < o THEN -1 ELSE IF v > o THEN 1 ELSE 0

\* Version.Compare: major, minor, patch, then the pre-release (a version
\* without one is the greater); metadata takes no part.
Compare(v, o) ==
    IF CompareSegment(v.major, o.major) # 0 THEN CompareSegment(v.major, o.major)
    ELSE IF CompareSegment(v.minor, o.minor) # 0 THEN CompareSegment(v.minor, o.minor)
    ELSE IF CompareSegment(v.patch, o.patch) # 0 THEN CompareSegment(v.patch, o.patch)
    ELSE IF v.pre = <<>> /\ o.pre = <<>> THEN 0
    ELSE IF v.pre = <<>> THEN 1
    ELSE IF o.pre = <<>> THEN -1
    ELSE ComparePreParts(Split(v.pre), Split(o.pre))

\* Version.originalVPrefix
OriginalVPrefix(v) == IF HasPrefix(v.original, <<"v">>) THEN <<"v">> ELSE <<>>

WithOriginal(v) == [v EXCEPT !.original = OriginalVPrefix(v) \o String(v)]

\* Version.IncMajor
IncMajor(v) ==
    WithOriginal([v EXCEPT !.metadata = <<>>, !.pre = <<>>, !.patch = 0,
                           !.minor = 0, !.major = v.major + 1])

\* IncMinor with the reset of the patch number left out.
IncMinorKeepsPatch(v) ==
    WithOriginal([v EXCEPT !.metadata = <<>>, !.pre = <<>>,
                           !.minor = v.minor + 1])

\* Version.IncMinor
IncMinor(v) ==
    WithOriginal([v EXCEPT !.metadata = <<>>, !.pre = <<>>, !.patch = 0,
                           !.minor = v.minor + 1])

\* IncPatch that clears pre-release and metadata and never increments.
IncPatchNeverIncrements(v) ==
    WithOriginal([v EXCEPT !.metadata = <<>>, !.pre = <<>>])

\* Version.IncPatch: a pre-release becomes its release, the patch number
\* kept; otherwise the patch number is incremented.
IncPatch(v) ==
    WithOriginal(IF v.pre # <<>>
                 THEN [v EXCEPT !.metadata = <<>>, !.pre = <<>>]
                 ELSE [v EXCEPT !.metadata = <<>>, !.pre = <<>>,
                                !.patch = v.patch + 1])


-----------------------------------------------------------------------------
(* sort.Sort(semver.Collection(vs)) *)

\* Collection.Less is c[i].LessThan(c[j]), which reads both versions: on a
\* nil entry it panics.  sort.Sort on fewer than 12 elements is an insertion
\* sort; each loop carries the slice and whether a comparison has panicked.
RECURSIVE InsertionInner(_, _)
InsertionInner(r, j) ==
    IF r.panic \/ j <= 1 THEN r
    ELSE IF r.data[j] = Nil \/ r.data[j - 1] = Nil
         THEN [r EXCEPT !.panic = TRUE]
    ELSE IF Compare(r.data[j], r.data[j - 1]) < 0
         THEN InsertionInner([r EXCEPT !.data[j] = r.data[j - 1],
                                       !.data[j - 1] = r.data[j]], j - 1)
    ELSE r

RECURSIVE InsertionOuter(_, _)
InsertionOuter(r, i) ==
    IF r.panic \/ i > Len(r.data) THEN r
    ELSE InsertionOuter(InsertionInner(r, i), i + 1)

InsertionSort(data) == InsertionOuter([panic |-> FALSE, data |-> data], 2)

-----------------------------------------------------------------------------
(* The program *)

\* type Spec
Major == 0
Minor == 1
Patch == 2

\* const Prefix
Prefix == <<"v">>

Chars(str) ==
    CASE str = "v1.0.0"     -> <<"v", "1", ".", "0", ".", "0">>
      [] str = "v1.1.0"     -> <<"v", "1", ".", "1", ".", "0">>
      [] str = "v1.1.1"     -> <<"v", "1", ".", "1", ".", "1">>
      [] str = "0.1.0"      -> <<"0", ".", "1", ".", "0">>
      [] str = "1.10+b"     -> <<"1", ".", "1", "0", "+", "b">>
      [] str = "1.1.1-rc"   -> <<"1", ".", "1", ".", "1", "-", "r", "c">>
      [] str = "v1.1.1-rc.2" -> <<"v", "1", ".", "1", ".", "1", "-", "r", "c", ".", "2">>
      [] str = "latest"     -> <<"l", "a", "t", "e", "s", "t">>

\* The tag names a repository may hold when the program starts.
TagPool ==
    {Chars(str) : str \in {"v1.0.0", "v1.1.0", "v1.1.1", "0.1.0", "1.10+b",
                           "1.1.1-rc", "v1.1.1-rc.2", "latest"}}

\* The repository's tag references, in the order Tags() iterates them.
TagLists ==
    {s \in UNION {[1..n -> TagPool] : n \in 0..MaxTags} :
        \A i, j \in DOMAIN s : i # j => s[i] # s[j]}

\* The zero value of semver.Version.
ZeroVersion ==
    [major |-> 0, minor |-> 0, patch |-> 0, pre |-> <<>>, metadata |-> <<>>,
     original |-> <<>>]

VARIABLES
    pc,        \* the next step of run / CLI.Run / CLI.PushTag
    opt,       \* Option: the parsed flags
    refs,      \* the repository's local tag names, in iteration order
    remote,    \* the tag names origin holds
    tags,      \* currentVersion's tags slice
    vs,        \* currentVersion's vs slice
    current,   \* Run's current
    next,      \* Run's next
    spec,      \* nextVersion's spec
    menu,      \* the items of the prompt nextVersion showed, if it showed one
    intent,    \* "none", "flag", "selected" or "aborted"
    tag,       \* Run's tag
    stdout,    \* the lines written to the process's standard output
    stderr,    \* the lines written to the process's standard error
    err,       \* the error Run returns, "nil" when none
    exitCode,  \* the process's exit code, -1 while it runs
    calls      \* the calls made to the repository, the identity provider
               \* and the terminal, each with its outcome

vars == <<pc, opt, refs, remote, tags, vs, current, next, spec, menu, intent,
          tag, stdout, stderr, err, exitCode, calls>>

Line(kind, text) == [kind |-> kind, text |-> text]

Call(op, ok, arg) == [op |-> op, ok |-> ok, arg |-> arg]

\* fmt.Fprint to c.Stdout, which Run replaces by ioutil.Discard under --quiet.
Fprint(lines) == IF opt.Quiet THEN stdout ELSE stdout \o lines

Init ==
    /\ pc = "ParseArgs"
    /\ opt \in [Major : BOOLEAN, Minor : BOOLEAN, Patch : BOOLEAN, Quiet : BOOLEAN]
    /\ refs \in TagLists
    /\ remote = Range(refs)
    /\ tags = <<>>
    /\ vs = <<>>
    /\ current = Nil
    /\ next = ZeroVersion
    /\ spec = Major
    /\ menu = <<>>
    /\ intent = "none"
    /\ tag = <<>>
    /\ stdout = <<>>
    /\ stderr = <<>>
    /\ err = "nil"
    /\ exitCode = -1
    /\ calls = <<>>

\* A runtime panic: the Go runtime writes the panic to standard error and
\* the process exits with code 2; Run returns nothing.
Panic(out) ==
    /\ stdout' = out
    /\ stderr' = Append(stderr, Line("panic", <<>>))
    /\ exitCode' = 2
    /\ pc' = "done"

\* run: flags.ParseArgs; on an error run returns 1.
ParseArgs ==
    /\ pc = "ParseArgs"
    /\ \E ok \in BOOLEAN :
          IF ok THEN pc' = "PlainOpen" /\ exitCode' = exitCode
          ELSE pc' = "done" /\ exitCode' = 1
    /\ UNCHANGED <<opt, refs, remote, tags, vs, current, next, spec, menu,
                   intent, tag, stdout, stderr, err, calls>>

\* Run: git.PlainOpen(wd)
PlainOpen ==
    /\ pc = "PlainOpen"
    /\ \E ok \in BOOLEAN :
          /\ calls' = Append(calls, Call("PlainOpen", ok, <<>>))
          /\ IF ok THEN pc' = "currentVersion" /\ err' = err
             ELSE pc' = "exit" /\ err' = "RepositoryOpenFailed"
    /\ UNCHANGED <<opt, refs, remote, tags, vs, current, next, spec, menu,
                   intent, tag, stdout, stderr, exitCode>>

\* currentVersion's listing: one line for each version, the last one marked;
\* v.Original() on a nil entry panics, after the lines before it.
Listing(sorted) ==
    LET nils == {i \in DOMAIN sorted : sorted[i] = Nil}
        stop == IF nils = {} THEN Len(sorted) + 1
                ELSE CHOOSE i \in nils : \A k \in nils : i <= k
    IN  [panic |-> nils # {},
         lines |-> <<Line("Tags:", <<>>)>> \o
                   [i \in 1..(stop - 1) |->
                       Line(IF i = Len(sorted) THEN "current version" ELSE "tag",
                            sorted[i].original)]
                   \o (IF nils = {} THEN <<Line("", <<>>)>> ELSE <<>>)]

\* CLI.currentVersion, and Run's return of its error
CurrentVersion ==
    /\ pc = "currentVersion"
    /\ \E ok \in BOOLEAN :
          /\ calls' = Append(calls, Call("Tags", ok, <<>>))
          /\ IF ~ok
             THEN /\ pc' = "exit"
                  /\ err' = "TagsFailed"
                  /\ UNCHANGED <<tags, vs, current, stdout, stderr, exitCode>>
             ELSE LET parsed == [i \in DOMAIN refs |-> NewVersion(refs[i])]
                      sorted == InsertionSort(parsed)
                      listing == Listing(sorted.data)
                  IN  /\ tags' = refs
                      /\ err' = err
                      /\ IF sorted.panic
                         THEN /\ vs' = sorted.data
                              /\ current' = current
                              /\ Panic(stdout)
                         ELSE IF Len(parsed) = 0
                         THEN \* vs[len(vs)-1]: index out of range
                              /\ vs' = sorted.data
                              /\ current' = current
                              /\ Panic(stdout)
                         ELSE IF listing.panic
                         THEN /\ vs' = sorted.data
                              /\ current' = sorted.data[Len(sorted.data)]
                              /\ Panic(Fprint(listing.lines))
                         ELSE /\ vs' = sorted.data
                              /\ current' = sorted.data[Len(sorted.data)]
                              /\ stdout' = Fprint(listing.lines)
                              /\ pc' = "nextVersion"
                              /\ UNCHANGED <<stderr, exitCode>>
    /\ UNCHANGED <<opt, refs, remote, next, spec, menu, intent, tag>>

\* nextVersion's specs: the declared kinds, in the order the flags are tested.
Specs ==
    (IF opt.Major THEN <<Major>> ELSE <<>>)
        \o (IF opt.Minor THEN <<Minor>> ELSE <<>>)
        \o (IF opt.Patch THEN <<Patch>> ELSE <<>>)

\* The items nextVersion hands to prompt.
Items == IF Len(Specs) = 0 THEN <<Patch, Minor, Major>> ELSE Specs

\* nextVersion's second switch
Bump(s, v) ==
    IF s = Major THEN [err |-> "nil", next |-> IncMajor(v)]
    ELSE IF s = Minor THEN [err |-> "nil", next |-> IncMinor(v)]
    ELSE IF s = Patch THEN [err |-> "nil", next |-> IncPatch(v)]
    ELSE [err |-> "InvalidSemver", next |-> ZeroVersion]

\* nextVersion with the prompt's error dropped: an aborted selection goes on
\* with the item the prompt returned.
NextVersionDefaultsOnAbort ==
    /\ pc = "nextVersion"
    /\ \E i \in 1..3, aborted \in BOOLEAN :
          /\ i <= Len(Items)
          /\ aborted => i = 1
          /\ Len(Specs) = 1 => (i = 1 /\ ~aborted)
          /\ IF Len(Specs) = 1
             THEN /\ menu' = menu
                  /\ calls' = calls
                  /\ intent' = "flag"
             ELSE /\ menu' = Items
                  /\ calls' = Append(calls, Call("prompt", ~aborted, current.original))
                  /\ intent' = IF aborted THEN "aborted" ELSE "selected"
          /\ spec' = Items[i]
          /\ err' = Bump(Items[i], current).err
          /\ next' = Bump(Items[i], current).next
          /\ pc' = "tag"
    /\ UNCHANGED <<opt, refs, remote, tags, vs, current, tag, stdout, stderr,
                   exitCode>>

\* CLI.nextVersion with CLI.prompt, and Run's return of its error.  The
\* prompt returns the index the user chose, or index 0 and an error when the
\* selection is aborted.
NextVersion ==
    /\ pc = "nextVersion"
    /\ \E i \in 1..3, aborted \in BOOLEAN :
          /\ i <= Len(Items)
          /\ aborted => i = 1
          /\ Len(Specs) = 1 => (i = 1 /\ ~aborted)
          /\ IF Len(Specs) = 1
             THEN /\ menu' = menu
                  /\ calls' = calls
                  /\ intent' = "flag"
             ELSE /\ menu' = Items
                  /\ calls' = Append(calls, Call("prompt", ~aborted, current.original))
                  /\ intent' = IF aborted THEN "aborted" ELSE "selected"
          /\ spec' = Items[i]
          /\ IF aborted
             THEN /\ err' = "SelectionAborted"
                  /\ next' = next
                  /\ pc' = "exit"
             ELSE /\ err' = Bump(Items[i], current).err
                  /\ next' = Bump(Items[i], current).next
                  /\ pc' = IF Bump(Items[i], current).err = "nil"
                           THEN "tag" ELSE "exit"
    /\ UNCHANGED <<opt, refs, remote, tags, vs, current, tag, stdout, stderr,
                   exitCode>>

\* The tag's name with the prefix added whatever the current tag's text.
TagNameAlwaysPrefixed == Prefix \o String(next)

\* Run: the tag's name
TagName ==
    IF HasPrefix(current.original, Prefix) THEN Prefix \o String(next)
    ELSE String(next)

BuildTag ==
    /\ pc = "tag"
    /\ tag' = TagName
    /\ pc' = "Head"
    /\ UNCHANGED <<opt, refs, remote, tags, vs, current, next, spec, menu,
                   intent, stdout, stderr, err, exitCode, calls>>

\* A lookup whose error is recorded and not returned: PushTag goes on.
LookupGoesOn(at, op, failure, then) ==
    /\ pc = at
    /\ \E ok \in BOOLEAN :
          /\ calls' = Append(calls, Call(op, ok, <<>>))
          /\ pc' = then
          /\ err' = IF ok THEN err ELSE failure
    /\ UNCHANGED <<opt, refs, remote, tags, vs, current, next, spec, menu,
                   intent, tag, stdout, stderr, exitCode>>

\* One of PushTag's lookups: on an error PushTag returns it.
Lookup(at, op, failure, then) ==
    /\ pc = at
    /\ \E ok \in BOOLEAN :
          /\ calls' = Append(calls, Call(op, ok, <<>>))
          /\ IF ok THEN pc' = then /\ err' = err
             ELSE pc' = "exit" /\ err' = failure
    /\ UNCHANGED <<opt, refs, remote, tags, vs, current, next, spec, menu,
                   intent, tag, stdout, stderr, exitCode>>

\* PushTag: c.Repo.Head()
RepoHead == Lookup("Head", "Head", "HeadUnavailable", "CommitObject")

\* PushTag: c.Repo.CommitObject(head.Hash())
CommitObject == Lookup("CommitObject", "CommitObject", "CommitUnavailable", "User")

\* PushTag: gitconfig.User()
User == Lookup("User", "User", "UserUnavailable", "Email")

\* PushTag: gitconfig.Email()
Email == Lookup("Email", "Email", "EmailUnavailable", "CreateTag")

\* PushTag: c.Repo.CreateTag, which fails when the name is taken or the
\* object cannot be written, and the line that reports the tag.
CreateTag ==
    /\ pc = "CreateTag"
    /\ \E written \in BOOLEAN :
          LET ok == written /\ tag \notin Range(refs)
          IN  /\ calls' = Append(calls, Call("CreateTag", ok, tag))
              /\ IF ok
                 THEN /\ refs' = Append(refs, tag)
                      /\ stdout' = Fprint(<<Line("Bump version to", tag)>>)
                      /\ pc' = "Push"
                      /\ err' = err
                 ELSE /\ refs' = refs
                      /\ stdout' = stdout
                      /\ pc' = "exit"
                      /\ err' = "TagCreationFailed"
    /\ UNCHANGED <<opt, remote, tags, vs, current, next, spec, menu, intent,
                   tag, stderr, exitCode>>

\* Push with a rollback: a failed push deletes the local tag again.
PushRollsBack ==
    /\ pc = "Push"
    /\ \E ok \in BOOLEAN :
          /\ calls' = Append(calls, Call("Push", ok, tag))
          /\ remote' = IF ok THEN remote \cup {tag} ELSE remote
          /\ err' = IF ok THEN err ELSE "PushFailed"
          /\ refs' = IF ok THEN refs ELSE SelectSeq(refs, LAMBDA t : t # tag)
    /\ stdout' = Fprint(<<Line("Pushed to origin.", <<>>)>>)
    /\ pc' = "exit"
    /\ UNCHANGED <<opt, tags, vs, current, next, spec, menu, intent,
                   tag, stderr, exitCode>>

\* PushTag: c.Repo.Push of the one tag to origin, whose result PushTag
\* returns, and the deferred line, which is written as PushTag returns.
Push ==
    /\ pc = "Push"
    /\ \E ok \in BOOLEAN :
          /\ calls' = Append(calls, Call("Push", ok, tag))
          /\ remote' = IF ok THEN remote \cup {tag} ELSE remote
          /\ err' = IF ok THEN err ELSE "PushFailed"
    /\ stdout' = Fprint(<<Line("Pushed to origin.", <<>>)>>)
    /\ pc' = "exit"
    /\ UNCHANGED <<opt, refs, tags, vs, current, next, spec, menu, intent,
                   tag, stderr, exitCode>>

\* run: report Run's error on os.Stderr and map it to the exit code.
Exit ==
    /\ pc = "exit"
    /\ IF err # "nil"
       THEN /\ stderr' = Append(stderr, Line("[ERROR]", <<err>>))
            /\ exitCode' = 1
       ELSE /\ stderr' = stderr
            /\ exitCode' = 0
    /\ pc' = "done"
    /\ UNCHANGED <<opt, refs, remote, tags, vs, current, next, spec, menu,
                   intent, tag, stdout, err, calls>>

Next ==
    \/ ParseArgs
    \/ PlainOpen
    \/ CurrentVersion
    \/ NextVersion
    \/ BuildTag
    \/ RepoHead
    \/ CommitObject
    \/ User
    \/ Email
    \/ CreateTag
    \/ Push
    \/ Exit

Spec == Init /\ [][Next]_vars

-----------------------------------------------------------------------------
(* Properties *)

Called(op) == \E i \in DOMAIN calls : calls[i].op = op

CallOk(op) == \E i \in DOMAIN calls : calls[i].op = op /\ calls[i].ok

CallFailed(op) == \E i \in DOMAIN calls : calls[i].op = op /\ ~calls[i].ok

CountCalls(op) == Cardinality({i \in DOMAIN calls : calls[i].op = op})

Printed(kind) == \E i \in DOMAIN stdout : stdout[i].kind = kind

\* The versions of the tag names currentVersion listed that parse.
ParsedTags == {NewVersion(tags[i]) : i \in DOMAIN tags} \ {Nil}

\* The kinds the flags declare.
Declared ==
    (IF opt.Major THEN {Major} ELSE {}) \cup (IF opt.Minor THEN {Minor} ELSE {})
        \cup (IF opt.Patch THEN {Patch} ELSE {})

IsDeclared(k) == k \in Declared

\* The names handed to CreateTag.
CreatedNames == {calls[i].arg : i \in {k \in DOMAIN calls : calls[k].op = "CreateTag"}}

\* C1: whenever the listed tag names include one that parses, currentVersion
\* does not crash and its result is the greatest of the versions that
\* parse; the names that do not parse are skipped.
C1_CurrentIsMaxOfParseable ==
    (CallOk("Tags") /\ ParsedTags # {}) =>
        /\ exitCode # 2
        /\ current \in ParsedTags
        /\ \A v \in ParsedTags : Compare(current, v) >= 0

\* C2: a run whose tags include none that parses ends with the error
\* NoVersionsFound and exit code 1, with no prompt, tag creation or push;
\* and the error is raised in no run where some tag parses.
C2_NoVersionsFoundReported ==
    /\ (pc = "done" /\ CallOk("Tags") /\ ParsedTags = {}) =>
          /\ err = "NoVersionsFound"
          /\ exitCode = 1
          /\ ~Called("prompt") /\ ~Called("CreateTag") /\ ~Called("Push")
    /\ (CallOk("Tags") /\ ParsedTags # {}) => err # "NoVersionsFound"

\* C3: with two or more flags set the menu holds exactly the declared
\* kinds, in the order Patch, Minor, Major, and the resolved kind is one of
\* them.
C3_MenuInPatchMinorMajorOrder ==
    (Cardinality(Declared) >= 2 /\ Called("prompt")) =>
        /\ menu = SelectSeq(<<Patch, Minor, Major>>, IsDeclared)
        /\ spec \in Declared

\* C4: "Bump version to" is printed only after the tag was created, and
\* "Pushed to origin." only if the push succeeded.
C4_PushedLineOnlyAfterPushSucceeded ==
    /\ Printed("Bump version to") => CallOk("CreateTag")
    /\ Printed("Pushed to origin.") => CallOk("Push")

\* C5: when the tag was created and the push failed, Run returns the push
\* error, the process reports it and exits with code 1, the new tag is still
\* among the local tags, and the push was attempted once.
C5_PushFailureKeepsLocalTag ==
    (CallOk("CreateTag") /\ CallFailed("Push")) =>
        /\ err = "PushFailed"
        /\ \E i \in DOMAIN refs : refs[i] = tag
        /\ CountCalls("Push") = 1
        /\ CountCalls("CreateTag") = 1
        /\ pc \in {"exit", "done"}
        /\ pc = "done" =>
              /\ exitCode = 1
              /\ \E i \in DOMAIN stderr : stderr[i] = Line("[ERROR]", <<"PushFailed">>)

C5_Witness ==
    /\ pc = "done"
    /\ CallOk("CreateTag")
    /\ CallFailed("Push")
    /\ exitCode = 1
    /\ \E i \in DOMAIN refs : refs[i] = tag

\* The error PushTag returns for a failed step.
ErrorOf(op) ==
    CASE op = "Head" -> "HeadUnavailable"
      [] op = "CommitObject" -> "CommitUnavailable"
      [] op = "User" -> "UserUnavailable"
      [] op = "Email" -> "EmailUnavailable"
      [] op = "CreateTag" -> "TagCreationFailed"

\* C6: a failed lookup of HEAD, its commit, the user name or the email is
\* followed by no tag creation and no push; a failed tag creation is followed
\* by no push; the error returned is the failed step's, and the local tags are
\* as they were.
C6_PublishShortCircuits ==
    /\ \A op \in {"Head", "CommitObject", "User", "Email"} :
          CallFailed(op) =>
              /\ ~Called("CreateTag")
              /\ ~Called("Push")
              /\ err = ErrorOf(op)
              /\ refs = tags
    /\ CallFailed("CreateTag") =>
          /\ ~Called("Push")
          /\ err = ErrorOf("CreateTag")
          /\ refs = tags
          /\ ~Printed("Bump version to")

C6_Witness ==
    /\ pc = "done"
    /\ CallOk("Head") /\ CallOk("CommitObject") /\ CallOk("User") /\ CallOk("Email")
    /\ CallFailed("CreateTag")
    /\ exitCode = 1

\* C7: after an aborted selection, with no flag or with several,
\* nextVersion has returned an error and no version: no tag name is built, no
\* tag is created, no push is attempted, and the run exits with code 1.
C7_AbortDefaultsNothing ==
    CallFailed("prompt") =>
        /\ err = "SelectionAborted"
        /\ next = ZeroVersion
        /\ tag = <<>>
        /\ ~Called("Head") /\ ~Called("CreateTag") /\ ~Called("Push")
        /\ refs = tags
        /\ pc \in {"exit", "done"}
        /\ pc = "done" => exitCode = 1

C7_Witness ==
    /\ pc = "done"
    /\ CallFailed("prompt")
    /\ Cardinality(Declared) = 2
    /\ exitCode = 1

\* C8: the name handed to CreateTag is the next version's canonical text,
\* with a leading "v" exactly when the current tag's text starts with "v":
\* [v1.0.0, v1.1.0, v1.1.1] with Patch gives "v1.1.2", [0.1.0] with Major
\* gives "1.0.0".
C8_PrefixFollowsCurrentTag ==
    \A name \in CreatedNames :
        /\ name = (IF Head(current.original) = "v" THEN <<"v">> ELSE <<>>) \o String(next)
        /\ Head(name) = "v" <=> Head(current.original) = "v"
        /\ (tags = <<Chars("v1.0.0"), Chars("v1.1.0"), Chars("v1.1.1")>> /\ spec = Patch)
              => name = <<"v", "1", ".", "1", ".", "2">>
        /\ (tags = <<Chars("0.1.0")>> /\ spec = Major)
              => name = <<"1", ".", "0", ".", "0">>

C8_Witness ==
    /\ CallOk("CreateTag")
    /\ tags = <<Chars("v1.0.0"), Chars("v1.1.0"), Chars("v1.1.1")>>
    /\ spec = Patch
    /\ tag = <<"v", "1", ".", "1", ".", "2">>

\* nextVersion has resolved a kind and returned.
Resolved == intent \in {"flag", "selected"}

\* C9 as stated: the next version has no pre-release and no metadata, and
\* its numbers are (major+1, 0, 0) for Major, (major, minor+1, 0) for Minor
\* and (major, minor, patch+1) for Patch, whatever the current version.
C9_IncrementsExactlyOne ==
    Resolved =>
        /\ next.pre = <<>> /\ next.metadata = <<>>
        /\ spec = Major =>
              <<next.major, next.minor, next.patch>> = <<current.major + 1, 0, 0>>
        /\ spec = Minor =>
              <<next.major, next.minor, next.patch>>
                  = <<current.major, current.minor + 1, 0>>
        /\ spec = Patch =>
              <<next.major, next.minor, next.patch>>
                  = <<current.major, current.minor, current.patch + 1>>

\* C9, amended: as above, except that Patch on a current version with a
\* pre-release keeps (major, minor, patch) and only drops the pre-release
\* and the metadata; and nextVersion returns no error once the kind is
\* resolved.
C9_PatchOfPrereleaseKeepsNumbers ==
    Resolved =>
        /\ next.pre = <<>> /\ next.metadata = <<>>
        /\ spec = Major =>
              <<next.major, next.minor, next.patch>> = <<current.major + 1, 0, 0>>
        /\ spec = Minor =>
              <<next.major, next.minor, next.patch>>
                  = <<current.major, current.minor + 1, 0>>
        /\ (spec = Patch /\ current.pre = <<>>) =>
              <<next.major, next.minor, next.patch>>
                  = <<current.major, current.minor, current.patch + 1>>
        /\ (spec = Patch /\ current.pre # <<>>) =>
              <<next.major, next.minor, next.patch>>
                  = <<current.major, current.minor, current.patch>>
        /\ pc = "tag" => err = "nil"

C9_Witness ==
    /\ Resolved
    /\ pc = "tag"
    /\ spec = Patch
    /\ current.pre # <<>>
    /\ current.patch > 0
    /\ next.patch = current.patch

\* C10: in a run that reaches tag creation the next version is strictly
\* greater than the current one, and the name handed to CreateTag reads back
\* as a version strictly greater than every listed tag that parses.
C10_NextStrictlyGreater ==
    Called("CreateTag") =>
        /\ Compare(next, current) = 1
        /\ \A name \in CreatedNames :
              /\ NewVersion(name) # Nil
              /\ \A v \in ParsedTags : Compare(NewVersion(name), v) = 1

C10_Witness ==
    /\ CallOk("CreateTag")
    /\ current.pre # <<>>
    /\ spec = Patch
    /\ Cardinality(ParsedTags) >= 2

=============================================================================
